---- MODULE Spec2Model ----
(***************************************************************************)
(* Model of 06_pascal_caffenet_mixup.py: the mixup batch interpolation,    *)
(* the training loop of main() (global step, stepped learning rate,        *)
(* logging, in-loop evaluation, checkpoints, final report) and the         *)
(* average-precision scoring it calls.                                     *)
(*                                                                         *)
(* Reals are modelled exactly: a mixing coefficient lambda is an integer   *)
(* number of LamDen-ths, a mixed value is carried multiplied by LamDen, a  *)
(* learning rate is a fraction <<num, den>> of the --lr flag, an average   *)
(* precision is carried multiplied by APScale(n).  Floating-point rounding *)
(* is not modelled.                                                        *)
(***************************************************************************)
EXTENDS Integers, Sequences, FiniteSets, TLC

\* ------------------------------------------------------------------ bounds
MaxEpochs    == 3   \* --epochs ranges over 0..MaxEpochs
MaxTrain     == 3   \* trainval examples
MaxTest      == 2   \* test examples
MaxBatchSize == 2   \* --batch-size ranges over 1..MaxBatchSize
MaxInterval  == 2   \* --log-interval, --eval-interval range over 1..MaxInterval
MaxMixN      == 4   \* batch sizes of the stand-alone mixup calls
MaxApN       == 3   \* examples of the stand-alone compute_ap calls

\* ------------------------------------------------------- program constants
\* The class catalog, cut to its first two names (the source has 20).
CLASS_NAMES == <<"aeroplane", "bicycle">>
num_classes == Len(CLASS_NAMES)
Classes     == 1..num_classes

decay_steps == 5000          \* exponential_decay(args.lr, global_step, 5000, ...)
decay_rate_den == 2          \* ... 0.5, staircase=True): 0.5 = 1 / 2
ckpt_every == 2              \* if ep % 2 == 0: root.save(ckpt_prefix)
default_log_interval  == 50
default_eval_interval == 250

\* lambda = k / LamDen; np.random.beta draws are modelled in tenths.
LamDen == 10
Lams   == {1, 5, 7, 9}       \* draws of the stand-alone mixup calls
LoopLams == {3}              \* draws inside the training loop

\* ---------------------------------------------------------------- helpers
RECURSIVE Pow(_, _)
Pow(b, e) == IF e = 0 THEN 1 ELSE b * Pow(b, e - 1)

RECURSIVE Factorial(_)
Factorial(n) == IF n <= 1 THEN 1 ELSE n * Factorial(n - 1)

RECURSIVE SumSet(_, _)
\* sum of f[x] over the finite set S
SumSet(f, S) == IF S = {} THEN 0
                ELSE LET x == CHOOSE y \in S : TRUE
                     IN f[x] + SumSet(f, S \ {x})

CeilDiv(a, b) == (a + b - 1) \div b

BinaryRows == [Classes -> {0, 1}]

\* ------------------------------------------------------------------ mixup
\* np.random.permutation(n): the arrangements of 0..n-1 (0-based, as in numpy)
permutation(n) ==
    {p \in [1..n -> 0..(n - 1)] : \A i, j \in 1..n : i # j => p[i] # p[j]}

\* np.random.beta(alpha, alpha, n), in LamDen-ths
beta(S, n) == [1..n -> S]

\* tf.gather(params, indices): row i of the result is params[indices[i]]
\* (indices are 0-based, TLA+ sequences 1-based)
gather(params, indices) == [i \in DOMAIN indices |-> params[indices[i] + 1]]

\* Line 137 of the source, were it not commented out: the weights mixed too.
mixup_mixing_weights(images, labels, l_weights, weights, ordering, batch_size) ==
    LET l_w_weight    == weights
        l_weights_new == gather(l_weights, ordering)
    IN  [images    |-> [i \in 1..batch_size |->
                          weights[i] * images[i]
                          + (LamDen - weights[i]) * gather(images, ordering)[i]],
         labels    |-> [i \in 1..batch_size |-> [c \in DOMAIN labels[i] |->
                          weights[i] * labels[i][c]
                          + (LamDen - weights[i]) * gather(labels, ordering)[i][c]]],
         l_weights |-> [i \in 1..batch_size |-> [c \in DOMAIN l_weights[i] |->
                          l_w_weight[i] * l_weights[i][c]
                          + (LamDen - l_w_weight[i]) * l_weights_new[i][c]]]]

\* The label mixed with the coefficient of the partner example instead of its own.
mixup_partner_lambda(images, labels, l_weights, weights, ordering, batch_size) ==
    LET label_weight == gather(weights, ordering)
    IN  [images    |-> [i \in 1..batch_size |->
                          weights[i] * images[i]
                          + (LamDen - weights[i]) * gather(images, ordering)[i]],
         labels    |-> [i \in 1..batch_size |-> [c \in DOMAIN labels[i] |->
                          label_weight[i] * labels[i][c]
                          + (LamDen - label_weight[i]) * gather(labels, ordering)[i][c]]],
         l_weights |-> l_weights]

\* mixup(images, labels, l_weights, alpha, batch_size), with the two random
\* draws of its body (weights = the beta draw, ordering = the permutation)
\* passed in.  Outputs are multiplied by LamDen; l_weights is returned as is.
mixup(images, labels, l_weights, weights, ordering, batch_size) ==
    LET image_weight == weights      \* weights.reshape(batch_size, 1, 1, 1)
        label_weight == weights      \* weights.reshape(batch_size, 1)
        images_new   == gather(images, ordering)
        images_old   == images
        labels_new   == gather(labels, ordering)
        labels_old   == labels
    IN  [images    |-> [i \in 1..batch_size |->
                          image_weight[i] * images_old[i]
                          + (LamDen - image_weight[i]) * images_new[i]],
         labels    |-> [i \in 1..batch_size |-> [c \in DOMAIN labels_old[i] |->
                          label_weight[i] * labels_old[i][c]
                          + (LamDen - label_weight[i]) * labels_new[i][c]]],
         l_weights |-> l_weights]

\* ------------------------------------------------------------- data sets
\* util.load_pascal(data_dir, class_names, split): example k of a split.
\* Labels are binary, one entry per class; weights are 0/1 validity masks.
LabelOf(k)  == [c \in Classes |-> (k \div Pow(2, c - 1)) % 2]
WeightOf(k) == [c \in Classes |-> IF (k + c) % 4 = 0 THEN 0 ELSE 1]
Example(k)  == [image |-> k, label |-> LabelOf(k), weight |-> WeightOf(k)]
load_pascal(n) == [k \in 1..n |-> Example(k)]

\* augment_train_data / center_crop_test_data: the image is cropped (and, in
\* training, flipped); y and z are returned as they came.  An image is an
\* opaque pixel value here, which a crop or a flip leaves in place.
augment_train_data(e)    == [image |-> e.image, label |-> e.label, weight |-> e.weight]
center_crop_test_data(e) == [image |-> e.image, label |-> e.label, weight |-> e.weight]

\* Dataset.shuffle(10000): every order of a dataset smaller than the buffer
shuffle(ds) ==
    {[k \in DOMAIN ds |-> ds[p[k] + 1]] : p \in permutation(Len(ds))}

\* Dataset.batch(batch_size): consecutive groups of batch_size examples, the
\* last group holding what is left (drop_remainder is not set)
batch(ds, batch_size) ==
    [b \in 1..CeilDiv(Len(ds), batch_size) |->
        LET lo == (b - 1) * batch_size
            n  == IF Len(ds) - lo < batch_size THEN Len(ds) - lo ELSE batch_size
        IN  [images  |-> [i \in 1..n |-> ds[lo + i].image],
             labels  |-> [i \in 1..n |-> ds[lo + i].label],
             weights |-> [i \in 1..n |-> ds[lo + i].weight]]]

\* ------------------------------------------------------- model, evaluator
\* CaffeNet.call(inputs, training): one logit per example and class.  The
\* network is a black box: its logits are some fixed function of the
\* parameters (their version) and the image.
call(m, inputs, training) ==
    [logits   |-> [i \in DOMAIN inputs |-> [c \in Classes |->
                     ((m.version + inputs[i] + c) % 3) - 1]],
     training |-> training]

\* util.cal_grad(model, loss_func, inputs, targets, weights): the loss of the
\* batch (its gradients go to apply_gradients).  The loss is a black box too:
\* some fixed function of the parameters and the batch, not the same for
\* every batch.
cal_grad(m, inputs, targets, w) == 1 + ((m.version + Len(inputs)) % 2)

\* tf.round(tf.nn.sigmoid(logit)): 1 for a positive logit; sigmoid(0) = 0.5
\* rounds to the even 0
round_sigmoid(logit) == IF logit > 0 THEN 1 ELSE 0

\* test with the training flag left at call's default, True.
test_training_default(m, dataset) ==
    [batches  |-> [b \in DOMAIN dataset |-> b],
     training |-> {call(m, dataset[b].images, TRUE).training : b \in DOMAIN dataset},
     labels   |-> [b \in DOMAIN dataset |-> dataset[b].labels],
     correct  |-> 0,
     total    |-> 0]

\* test(model, dataset): one forward pass per batch with training=False,
\* predictions compared with the batch's labels.
test(m, dataset) ==
    LET fwd(b) == call(m, dataset[b].images, FALSE)
        hits(b) == Cardinality({<<i, c>> \in (DOMAIN dataset[b].labels) \X Classes :
                      round_sigmoid(fwd(b).logits[i][c]) = dataset[b].labels[i][c]})
    IN  [batches  |-> [b \in DOMAIN dataset |-> b],
         training |-> {fwd(b).training : b \in DOMAIN dataset},
         labels   |-> [b \in DOMAIN dataset |-> dataset[b].labels],
         correct  |-> SumSet([b \in DOMAIN dataset |-> hits(b)], DOMAIN dataset),
         total    |-> SumSet([b \in DOMAIN dataset |->
                                Len(dataset[b].labels) * num_classes],
                             DOMAIN dataset)]

\* An average precision is carried multiplied by APScale(n), n the number of
\* examples scored, so that every quotient below is exact.
APScale(n) == Factorial(n) * Factorial(n)
NaN == 0 - 1                 \* the not-a-number of an undefined precision

\* Average precision of one class over the examples idx: the sum, over the
\* distinct score values t taken as thresholds from the highest down, of
\* (recall(t) - recall(next higher t)) * precision(t).  NaN without positives.
average_precision_score(y_true, y_score, idx, n) ==
    LET L    == Factorial(n)
        pos  == {i \in idx : y_true[i] = 1}
        T    == {y_score[i] : i \in idx}
        tp(t)      == Cardinality({i \in pos : y_score[i] >= t})
        tpAbove(t) == Cardinality({i \in pos : y_score[i] > t})
        all(t)     == Cardinality({i \in idx : y_score[i] >= t})
        term == [t \in T |-> (tp(t) - tpAbove(t)) * ((tp(t) * L) \div all(t))]
    IN  IF pos = {} THEN NaN
        ELSE SumSet(term, T) * (L \div Cardinality(pos))

\* util.compute_ap(gt, pred, valid, average=None): per class, the average
\* precision over the examples whose weight for that class is nonzero.
compute_ap(gt, pred, valid) ==
    [cid \in Classes |->
        average_precision_score([i \in DOMAIN gt |-> gt[i][cid]],
                                [i \in DOMAIN gt |-> pred[i][cid]],
                                {i \in DOMAIN gt : valid[i][cid] > 0},
                                Len(gt))]

\* np.mean over the classes, as <<sum, count>>; NaN if any entry is
mean(AP) == IF \E c \in DOMAIN AP : AP[c] = NaN THEN <<NaN, Len(AP)>>
            ELSE <<SumSet(AP, DOMAIN AP), Len(AP)>>

\* concatenation of the batches' rows, in batch order
RECURSIVE concat(_, _)
concat(rows, b) == IF b = 0 THEN <<>> ELSE concat(rows, b - 1) \o rows[b]

\* util.eval_dataset_map(model, dataset): the evaluator of the test stream.
\* Every batch is run once through the forward pass with training disabled;
\* the scores of all batches are scored per class by compute_ap against the
\* batches' labels and weights.
eval_dataset_map(m, dataset) ==
    LET nb   == Len(dataset)
        fwd  == [b \in 1..nb |-> call(m, dataset[b].images, FALSE)]
        gt   == concat([b \in 1..nb |-> dataset[b].labels], nb)
        val  == concat([b \in 1..nb |-> dataset[b].weights], nb)
        pred == concat([b \in 1..nb |-> fwd[b].logits], nb)
        ap   == compute_ap(gt, pred, val)
    IN  [AP |-> ap, mAP |-> mean(ap), batches |-> [b \in 1..nb |-> b],
         training |-> {fwd[b].training : b \in 1..nb},
         labels |-> [b \in 1..nb |-> dataset[b].labels]]

\* ---------------------------------------------------------- learning rate
\* tf.train.exponential_decay(args.lr, global_step, 5000, 0.5, staircase=True)
\* under eager execution is a function of no argument; each call reads the
\* global step and returns lr * 0.5 ^ floor(global_step / 5000), here as the
\* fraction <<num, den>> of args.lr.
decayed_lr(step) == <<1, Pow(decay_rate_den, step \div decay_steps)>>

\* ------------------------------------------------------------------ state
VARIABLES
    pc,              \* position in main()
    args,            \* the parsed flags
    train_set,       \* load_pascal(split='trainval')
    test_set,        \* load_pascal(split='test')
    global_step,     \* tf.train.get_or_create_global_step()
    optimizer,       \* MomentumOptimizer: its learning rate and its slots
    model,           \* CaffeNet: built or not, and its parameters' version
    ep,              \* for ep in range(args.epochs)
    train_iter,      \* the iterator over train_dataset: this epoch's batches to come
    batch_no,        \* batches of this epoch already fetched
    epoch_loss_avg,  \* tfe.metrics.Mean(): total and count
    batch_in,        \* the fetched batch after the casts (mixup's arguments)
    images, labels, weights,  \* the batch after mixup (times LamDen, but weights)
    lam, ordering,   \* mixup's random draws for this batch
    loss_value,      \* util.cal_grad's loss of this batch
    update,          \* the last apply_gradients: step before it, rate, targets
    train_log,       \* the last entry appended to train_log
    summary,         \* per tag, the last scalar written and its step
    in_loop,         \* in-loop evaluations: count and the last one
    ckpt,            \* root.save calls: count and the last one
    AP, rand_mAP, gt_AP,  \* the final evaluation, np.mean(rand_AP), gt_AP
    finals,          \* final evaluations run
    restores         \* checkpoints loaded

dataVars  == <<args, train_set, test_set>>
batchVars == <<batch_in, images, labels, weights, lam, ordering>>
trainVars == <<global_step, optimizer, model, epoch_loss_avg, loss_value, update>>
loopVars  == <<ep, train_iter, batch_no>>
logVars   == <<train_log, summary>>
endVars   == <<AP, rand_mAP, gt_AP, finals>>
vars == <<pc, dataVars, batchVars, trainVars, loopVars, logVars, in_loop, ckpt,
          endVars, restores>>

Tags == {"Training Loss", "LR", "Test mAP"}
NoRows == <<>>
NoEval == [AP |-> <<>>, mAP |-> <<NaN, 0>>, batches |-> <<>>, training |-> {},
           labels |-> <<>>]

\* train_dataset of lines 174-176, one epoch's iteration of it
train_dataset(ts, a) ==
    {batch(s, a.batch_size) :
        s \in shuffle([k \in DOMAIN ts |-> augment_train_data(ts[k])])}

\* test_dataset of lines 178-180
test_dataset(ts, a) ==
    batch([k \in DOMAIN ts |-> center_crop_test_data(ts[k])], a.batch_size)

\* What main() has built when it reaches the epoch loop (lines 182-211).
Built ==
    /\ global_step = 0
       \* learning_rate=decayed_lr(): the schedule is called once, here
    /\ optimizer = [learning_rate |-> decayed_lr(0), slots |-> 0]
    /\ model = [built |-> FALSE, version |-> 0]
    /\ ep = 0
    /\ train_iter = <<>>
    /\ batch_no = 0
    /\ epoch_loss_avg = [total |-> 0, count |-> 0]
    /\ images = NoRows /\ labels = NoRows /\ weights = NoRows
    /\ lam = <<>> /\ ordering = <<>>
    /\ loss_value = 0
    /\ update = [count |-> 0, step |-> 0, learning_rate |-> <<0, 1>>,
                 targets |-> NoRows]
    /\ train_log = [count |-> 0, iter |-> 0, loss |-> <<0, 1>>]
    /\ summary = [t \in Tags |-> [count |-> 0, step |-> 0, value |-> <<0, 1>>]]
    /\ in_loop = [count |-> 0, step |-> 0, model |-> model, result |-> NoEval]
    /\ ckpt = [count |-> 0, ep |-> 0, step |-> 0, batch_no |-> 0,
               model |-> model, optimizer |-> optimizer]
    /\ AP = NoEval /\ rand_mAP = <<NaN, 0>> /\ gt_AP = <<>>
    /\ finals = 0
    /\ restores = 0

Constructed ==
    /\ pc = "for_ep"
    /\ batch_in = [images |-> NoRows, labels |-> NoRows, weights |-> NoRows]
    /\ Built

Flags(E, B, LI, EI) ==
    [epochs : E, batch_size : B, log_interval : LI, eval_interval : EI]

Init ==
    /\ args \in Flags(0..MaxEpochs, 1..MaxBatchSize, 1..MaxInterval, 1..MaxInterval)
    /\ train_set \in {load_pascal(n) : n \in 1..MaxTrain}
    /\ test_set = load_pascal(MaxTest)
    /\ Constructed

\* A run long enough for the global step to pass decay_steps, with the
\* default intervals; and the run of no epoch at all.
InitLong ==
    /\ args \in Flags({0, decay_steps + 1}, {1},
                      {default_log_interval}, {default_eval_interval})
    /\ train_set = load_pascal(1)
    /\ test_set = load_pascal(1)
    /\ Constructed

\* ---------------------------------------------------------------- actions
\* Line 229: if global_step.numpy() % args.log_interval == 0
log_due(step, a) == step % a.log_interval = 0

\* The evaluation keyed on the step before the update.
eval_due_before_update(step, a) == (step - 1) % a.eval_interval = 0

\* Line 242: if global_step.numpy() % args.eval_interval == 0
eval_due(step, a) == step % a.eval_interval = 0

\* A checkpoint at the end of every epoch.
ckpt_due_every_epoch(e) == TRUE

\* Line 248: if ep % 2 == 0
ckpt_due(e) == e % ckpt_every = 0

\* The loss computed against the labels as fetched, not as mixed.
loss_targets_unmixed(mixed, fetched) == [i \in DOMAIN fetched |->
                                           [c \in DOMAIN fetched[i] |-> LamDen * fetched[i][c]]]

\* Lines 219-224: targets=labels, the labels mixup returned
loss_targets(mixed, fetched) == mixed

\* Lines 215-219: batch_size = int(images.shape[0]); the casts of labels and
\* weights to float32 (which keep every 0 and 1); the call of mixup.
MixupBatch(b, S) ==
    LET batch_size == Len(b.images)
    IN  \E w \in beta(S, batch_size), o \in permutation(batch_size) :
            LET out == mixup(b.images, b.labels, b.weights, w, o, batch_size)
            IN  /\ batch_in' = b
                /\ images' = out.images
                /\ labels' = out.labels
                /\ weights' = out.l_weights
                /\ lam' = w
                /\ ordering' = o

\* Line 212-214: the next epoch starts: a fresh Mean, a fresh shuffle.
EnterEpoch ==
    /\ pc = "for_ep"
    /\ ep < args.epochs
    /\ epoch_loss_avg' = [total |-> 0, count |-> 0]
    /\ \E bs \in train_dataset(train_set, args) : train_iter' = bs
    /\ batch_no' = 0
    /\ pc' = "for_batch"
    /\ UNCHANGED <<dataVars, batchVars, global_step, optimizer, model, loss_value,
                   update, ep, logVars, in_loop, ckpt, endVars, restores>>

\* Line 212: range(args.epochs) is exhausted.
LeaveEpochs ==
    /\ pc = "for_ep"
    /\ ep >= args.epochs
    /\ pc' = "summary"
    /\ UNCHANGED <<dataVars, batchVars, trainVars, loopVars, logVars, in_loop, ckpt,
                   endVars, restores>>

\* Lines 214-219: the next batch of the epoch is fetched, cast and mixed.
FetchAndMixup ==
    /\ pc = "for_batch"
    /\ train_iter # <<>>
    /\ MixupBatch(Head(train_iter), LoopLams)
    /\ train_iter' = Tail(train_iter)
    /\ batch_no' = batch_no + 1
    /\ pc' = "train"
    /\ UNCHANGED <<dataVars, trainVars, ep, logVars, in_loop, ckpt, endVars, restores>>

\* Line 214: the epoch's stream is exhausted.
EpochExhausted ==
    /\ pc = "for_batch"
    /\ train_iter = <<>>
    /\ pc' = "end_epoch"
    /\ UNCHANGED <<dataVars, batchVars, trainVars, loopVars, logVars, in_loop, ckpt,
                   endVars, restores>>

\* Lines 220-227: loss and gradients of the mixed batch; apply_gradients with
\* the optimizer's learning rate, which also advances global_step; the loss
\* joins the epoch's running mean.
TrainStep ==
    /\ pc = "train"
    /\ LET l == cal_grad(model, images, loss_targets(labels, batch_in.labels), weights)
       IN  /\ loss_value' = l
           /\ epoch_loss_avg' = [total |-> epoch_loss_avg.total + l,
                                 count |-> epoch_loss_avg.count + 1]
    /\ update' = [count |-> update.count + 1, step |-> global_step,
                  learning_rate |-> optimizer.learning_rate,
                  targets |-> loss_targets(labels, batch_in.labels)]
    /\ model' = [built |-> TRUE, version |-> model.version + 1]
    /\ optimizer' = [optimizer EXCEPT !.slots = @ + 1]
    /\ global_step' = global_step + 1
    /\ pc' = "log"
    /\ UNCHANGED <<dataVars, batchVars, loopVars, logVars, in_loop, ckpt, endVars,
                   restores>>

\* Lines 229-240: at a multiple of --log-interval the epoch's running mean is
\* printed and appended to train_log; the summary writer gets the batch's
\* loss_value as 'Training Loss' and decayed_lr() as 'LR'.
LogStep ==
    /\ pc = "log"
    /\ IF log_due(global_step, args)
       THEN /\ train_log' = [count |-> train_log.count + 1, iter |-> global_step,
                             loss |-> <<epoch_loss_avg.total, epoch_loss_avg.count>>]
            /\ summary' = [summary EXCEPT
                  !["Training Loss"] = [count |-> @.count + 1, step |-> global_step,
                                        value |-> <<loss_value, 1>>],
                  !["LR"] = [count |-> @.count + 1, step |-> global_step,
                             value |-> decayed_lr(global_step)]]
       ELSE UNCHANGED logVars
    /\ pc' = "eval"
    /\ UNCHANGED <<dataVars, batchVars, trainVars, loopVars, in_loop, ckpt, endVars,
                   restores>>

\* Lines 242-246: at a multiple of --eval-interval the test stream is
\* evaluated and its mean AP written as 'Test mAP'.
EvalStep ==
    /\ pc = "eval"
    /\ IF eval_due(global_step, args)
       THEN LET r == eval_dataset_map(model, test_dataset(test_set, args))
            IN  /\ in_loop' = [count |-> in_loop.count + 1, step |-> global_step,
                               model |-> model, result |-> r]
                /\ summary' = [summary EXCEPT
                      !["Test mAP"] = [count |-> @.count + 1, step |-> global_step,
                                       value |-> r.mAP]]
       ELSE UNCHANGED <<in_loop, summary>>
    /\ pc' = "for_batch"
    /\ UNCHANGED <<dataVars, batchVars, trainVars, loopVars, train_log, ckpt, endVars,
                   restores>>

\* Lines 248-249: after the epoch's batches, root.save on even epochs.
EndEpoch ==
    /\ pc = "end_epoch"
    /\ IF ckpt_due(ep)
       THEN ckpt' = [count |-> ckpt.count + 1, ep |-> ep, step |-> global_step,
                     batch_no |-> batch_no, model |-> model, optimizer |-> optimizer]
       ELSE UNCHANGED ckpt
    /\ ep' = ep + 1
    /\ pc' = "for_ep"
    /\ UNCHANGED <<dataVars, batchVars, trainVars, train_iter, batch_no, logVars,
                   in_loop, endVars, restores>>

\* Line 251: model.summary() of a model that has been called.
ModelSummary ==
    /\ pc = "summary"
    /\ model.built
    /\ pc' = "final_eval"
    /\ UNCHANGED <<dataVars, batchVars, trainVars, loopVars, logVars, in_loop, ckpt,
                   endVars, restores>>

\* Line 251: model.summary() of a subclassed keras.Model that was never
\* called raises ValueError (its weights do not exist yet); nothing catches it.
ModelSummaryRaises ==
    /\ pc = "summary"
    /\ ~model.built
    /\ pc' = "error"
    /\ UNCHANGED <<dataVars, batchVars, trainVars, loopVars, logVars, in_loop, ckpt,
                   endVars, restores>>

\* Line 253: the final evaluation.
FinalEval ==
    /\ pc = "final_eval"
    /\ AP' = eval_dataset_map(model, test_dataset(test_set, args))
    /\ finals' = finals + 1
    /\ pc' = "report"
    /\ UNCHANGED <<dataVars, batchVars, trainVars, loopVars, logVars, in_loop, ckpt,
                   rand_mAP, gt_AP, restores>>

test_labels(ts)  == [k \in DOMAIN ts |-> ts[k].label]
test_weights(ts) == [k \in DOMAIN ts |-> ts[k].weight]

\* The weights passed where the scores belong.
gt_ap_weights_as_scores(tl, tw) == compute_ap(tl, tw, tw)

\* Line 258: the ground-truth labels scored against themselves.
gt_ap(tl, tw) == compute_ap(tl, tl, tw)

\* np.random.random(test_labels.shape)
random(rows) == [DOMAIN rows -> [Classes -> {1, 2}]]

\* Lines 254-263: the two baselines and the printed report.
Report ==
    /\ pc = "report"
    /\ \E scores \in random(test_labels(test_set)) :
          rand_mAP' = mean(compute_ap(test_labels(test_set), scores,
                                      test_weights(test_set)))
    /\ gt_AP' = gt_ap(test_labels(test_set), test_weights(test_set))
    /\ pc' = "done"
    /\ UNCHANGED <<dataVars, batchVars, trainVars, loopVars, logVars, in_loop, ckpt,
                   AP, finals, restores>>

Next ==
    \/ EnterEpoch
    \/ LeaveEpochs
    \/ FetchAndMixup
    \/ EpochExhausted
    \/ TrainStep
    \/ LogStep
    \/ EvalStep
    \/ EndEpoch
    \/ ModelSummary
    \/ ModelSummaryRaises
    \/ FinalEval
    \/ Report

Spec == Init /\ [][Next]_vars

\* main() is one sequential thread: a step that can be taken is taken.
FairSpec == Spec /\ WF_vars(Next)

SpecLong == InitLong /\ [][Next]_vars

\* ------------------------------------------------ mixup called on its own
\* The flags of a stand-alone call: no epoch is run.
NoRun == [epochs |-> 0, batch_size |-> 1, log_interval |-> 1, eval_interval |-> 1]

\* Batches of 1..MaxMixN consecutive examples of the catalog.
MixupInputs ==
    {[images  |-> [k \in 1..n |-> Example(k + off).image],
      labels  |-> [k \in 1..n |-> Example(k + off).label],
      weights |-> [k \in 1..n |-> Example(k + off).weight]] :
        n \in 1..MaxMixN, off \in 0..1}

InitMixup ==
    /\ pc = "mixup_call"
    /\ batch_in \in MixupInputs
    /\ args = NoRun
    /\ train_set = load_pascal(1)
    /\ test_set = load_pascal(1)
    /\ Built

\* mixup(images, labels, weights, alpha, batch_size) called on batch_in
MixupCall ==
    /\ pc = "mixup_call"
    /\ MixupBatch(batch_in, Lams)
    /\ pc' = "mixup_return"
    /\ UNCHANGED <<dataVars, trainVars, loopVars, logVars, in_loop, ckpt, endVars,
                   restores>>

NextMixup == MixupCall

SpecMixup == InitMixup /\ [][NextMixup]_vars

\* ------------------------------------------- compute_ap called on its own
\* A test set of n examples with the labels L and the weights W.
ApInput(n, L, W) == [k \in 1..n |-> [image |-> k, label |-> L[k], weight |-> W[k]]]

\* Test sets of 1..MaxApN examples with every binary labelling and every
\* 0/1 weighting.
InitAP ==
    /\ pc = "ap_call"
    /\ \E n \in 1..MaxApN :
          \E L \in [1..n -> BinaryRows], W \in [1..n -> BinaryRows] :
             test_set = ApInput(n, L, W)
    /\ args = NoRun
    /\ train_set = load_pascal(1)
    /\ batch_in = [images |-> NoRows, labels |-> NoRows, weights |-> NoRows]
    /\ Built

\* Line 258: gt_AP = util.compute_ap(test_labels, test_labels, test_weights)
GtApCall ==
    /\ pc = "ap_call"
    /\ gt_AP' = gt_ap(test_labels(test_set), test_weights(test_set))
    /\ pc' = "ap_return"
    /\ UNCHANGED <<dataVars, batchVars, trainVars, loopVars, logVars, in_loop, ckpt,
                   AP, rand_mAP, finals, restores>>

NextAP == GtApCall

SpecAP == InitAP /\ [][NextAP]_vars

\* ------------------------------------------------------------------ claims
ExampleLabels   == << <<1, 0>>, <<0, 1>>, <<1, 1>>, <<0, 0>> >>
ExampleOrdering == <<2, 0, 3, 1>>
ExampleLam      == <<9, 1, 5, 7>>

\* C1: after mixup on a batch of n examples with permutation ordering and
\* coefficients lam (each in [0,1]), image i is lam_i * image_i +
\* (1 - lam_i) * image_ordering(i) and label i is lam_i * label_i +
\* (1 - lam_i) * label_ordering(i), the same lam_i and ordering(i) for both;
\* and the labels [[1,0],[0,1],[1,1],[0,0]] with ordering [2,0,3,1] and
\* lam [0.9,0.1,0.5,0.7] give label 0 = [1.0, 0.1].  (Values times LamDen.)
C1_MixupFormula ==
    pc = "mixup_return" =>
        LET n == Len(batch_in.images)
        IN  /\ ordering \in permutation(n)
            /\ lam \in [1..n -> 0..LamDen]
            /\ DOMAIN images = 1..n /\ DOMAIN labels = 1..n
            /\ \A i \in 1..n :
                  LET j == ordering[i] + 1
                  IN  /\ images[i] = lam[i] * batch_in.images[i]
                                     + (LamDen - lam[i]) * batch_in.images[j]
                      /\ \A c \in Classes :
                            labels[i][c] = lam[i] * batch_in.labels[i][c]
                                           + (LamDen - lam[i]) * batch_in.labels[j][c]
            /\ (/\ batch_in.labels = ExampleLabels
                /\ ordering = ExampleOrdering
                /\ lam = ExampleLam) => labels[1] = <<10, 1>>

C1_Witness ==
    /\ pc = "mixup_return"
    /\ batch_in.labels = ExampleLabels
    /\ ordering = ExampleOrdering
    /\ lam = ExampleLam
    /\ labels[1] = <<10, 1>>

\* C2: for every batch the training loop hands to mixup, a final batch
\* shorter than --batch-size included, the mixed images and labels have the
\* shape of the input, the permutation is over exactly the indices 0..n-1 of
\* the batch, and the weights returned are the weights passed in.
C2_ShapeAndWeights ==
    batch_no > 0 =>
        LET n == Len(batch_in.images)
        IN  /\ n >= 1 /\ n <= args.batch_size
            /\ Len(batch_in.labels) = n /\ Len(batch_in.weights) = n
            /\ DOMAIN images = DOMAIN batch_in.images
            /\ DOMAIN labels = DOMAIN batch_in.labels
            /\ \A i \in 1..n : DOMAIN labels[i] = DOMAIN batch_in.labels[i]
            /\ ordering \in permutation(n)
            /\ DOMAIN lam = 1..n
            /\ weights = batch_in.weights

C2_Witness ==
    /\ pc = "train"
    /\ batch_no = 2
    /\ Len(batch_in.images) < args.batch_size
    /\ Len(images) = Len(batch_in.images)
    /\ weights = batch_in.weights
    /\ \E i \in DOMAIN weights, c \in Classes : weights[i][c] = 0

\* C3: the update applied when the global step is s uses the learning rate
\* lr * 0.5 ^ floor(s / 5000).
C3_SteppedRate ==
    update.count > 0 => update.learning_rate = decayed_lr(update.step)

\* C4: after the update of a batch, when the global step is a multiple of
\* --log-interval, the training loss recorded is the running mean of the
\* losses so far and the LR recorded is the learning rate in effect for the
\* optimizer, both tagged with that step; at any other step nothing is
\* recorded.
C4_LogRecords ==
    pc = "eval" =>
        IF global_step % args.log_interval = 0
        THEN /\ train_log.iter = global_step
             /\ train_log.loss = <<epoch_loss_avg.total, epoch_loss_avg.count>>
             /\ summary["Training Loss"].step = global_step
             /\ summary["LR"].step = global_step
             /\ summary["LR"].value = optimizer.learning_rate
        ELSE /\ train_log.iter # global_step
             /\ summary["Training Loss"].step # global_step
             /\ summary["LR"].step # global_step

\* C5: the global step advances by exactly one per training batch and is
\* never reset; an in-loop evaluation happens after the update of a batch
\* exactly when the advanced step is a multiple of --eval-interval, over
\* every test batch once, with the parameters that include that update.
C5_EvalEveryInterval ==
    [][/\ global_step' # global_step =>
             pc = "train" /\ global_step' = global_step + 1
       /\ (pc = "train" /\ pc' # "train") => global_step' = global_step + 1
       /\ global_step' = update'.count
       /\ (pc = "eval" /\ pc' # "eval") =>
             IF global_step % args.eval_interval = 0
             THEN /\ in_loop'.count = in_loop.count + 1
                  /\ in_loop'.step = global_step
                  /\ in_loop'.model = model
                  /\ model.version = global_step
                  /\ update.step = global_step - 1
                  /\ in_loop'.result.batches =
                        [b \in 1..CeilDiv(Len(test_set), args.batch_size) |-> b]
                  /\ summary'["Test mAP"].step = global_step
             ELSE in_loop' = in_loop /\ summary' = summary
       /\ pc # "eval" => in_loop' = in_loop
      ]_vars

C5_Witness ==
    /\ in_loop.count >= 2
    /\ ep >= 1
    /\ args.eval_interval = 2
    /\ in_loop.step = global_step
    /\ in_loop.model.version = in_loop.step
    /\ Len(in_loop.result.batches) = 2

\* C6: a checkpoint of the model and the optimizer is written only at the
\* end of an epoch, after the epoch's last batch update, at the end of every
\* even epoch, and two consecutive checkpoints are exactly 2 epochs apart.
C6_CheckpointEveryTwoEpochs ==
    [][/\ ckpt' # ckpt =>
             /\ pc = "end_epoch"
             /\ train_iter = <<>>
             /\ batch_no = CeilDiv(Len(train_set), args.batch_size)
             /\ ckpt'.count = ckpt.count + 1
             /\ ckpt'.ep = ep
             /\ ckpt'.step = global_step
             /\ ckpt'.model = model /\ model.version = update.count
             /\ ckpt'.optimizer = optimizer
             /\ ckpt.count > 0 => ckpt'.ep - ckpt.ep = 2
       /\ (pc = "end_epoch" /\ pc' # "end_epoch" /\ ep % 2 = 0) =>
             ckpt'.count = ckpt.count + 1
      ]_vars

C6_Witness ==
    /\ ckpt.count = 2
    /\ ckpt.ep = 2
    /\ ckpt.step = global_step
    /\ ckpt.batch_no = 2

\* C7: for every number of epochs, 0 included, the run goes on until the
\* terminal state, which it reaches only after the one final evaluation; the
\* final evaluation follows the last epoch, and no checkpoint is loaded.
C7_TerminalAfterFinalEval ==
    /\ pc = "done" \/ ENABLED Next
    /\ pc = "done" => finals = 1
    /\ finals <= 1
    /\ finals = 1 => ep = args.epochs /\ pc \in {"report", "done"}
    /\ restores = 0

\* C8: an evaluation, in the loop or final, leaves the model parameters, the
\* optimizer state and the global step as they were, and every forward pass
\* of the evaluator runs with training disabled.
C8_EvalUpdatesNothing ==
    [][(in_loop' # in_loop \/ finals' # finals) =>
          /\ model' = model
          /\ optimizer' = optimizer
          /\ global_step' = global_step
          /\ in_loop' # in_loop => in_loop'.result.training = {FALSE}
          /\ finals' # finals => AP'.training = {FALSE}
          /\ test(model, test_dataset(test_set, args)).training = {FALSE}
      ]_vars

C8_Witness ==
    /\ finals = 1
    /\ in_loop.count > 0
    /\ in_loop.result.training = {FALSE}
    /\ AP.training = {FALSE}
    /\ global_step > 0
    /\ model.version = global_step
    /\ optimizer.slots = global_step

Binary(rows) == \A i \in DOMAIN rows : \A c \in DOMAIN rows[i] : rows[i][c] \in {0, 1}

\* C9: every label array the evaluator compares predictions with is an
\* original binary test label, and the labels of every training loss are
\* the labels mixup returned for that batch.
C9_MixupOnlyInTraining ==
    LET td == test_dataset(test_set, args)
        original == [b \in DOMAIN td |-> td[b].labels]
    IN  /\ \A b \in DOMAIN td :
              /\ td[b].labels = [i \in DOMAIN td[b].labels |->
                                   test_set[(b - 1) * args.batch_size + i].label]
              /\ Binary(td[b].labels)
        /\ test(model, td).labels = original
        /\ in_loop.count > 0 => in_loop.result.labels = original
        /\ finals > 0 => AP.labels = original
        /\ (update.count > 0 /\ pc # "train") =>
              update.targets = mixup(batch_in.images, batch_in.labels, batch_in.weights,
                                     lam, ordering, Len(batch_in.images)).labels

C9_Witness ==
    /\ update.count > 0
    /\ in_loop.count > 0
    /\ finals > 0
    /\ \E i \in DOMAIN update.targets, c \in Classes :
          update.targets[i][c] \notin {0, LamDen}
    /\ Binary(AP.labels[1])

\* C10: with the ground-truth labels as the scores, the average precision of
\* every class with a positive example among the examples of nonzero weight
\* is 1.0, whatever the labels of the zero-weight examples are; so the mean
\* is 1.0 when every class has such a positive.  (Values times APScale.)
C10_GroundTruthAP ==
    pc = "ap_return" =>
        LET tl == test_labels(test_set)
            tw == test_weights(test_set)
            n  == Len(test_set)
            HasPositive(c) == \E i \in 1..n : tw[i][c] # 0 /\ tl[i][c] = 1
            flipped == [i \in 1..n |-> [c \in Classes |->
                          IF tw[i][c] = 0 THEN 1 - tl[i][c] ELSE tl[i][c]]]
        IN  /\ \A c \in Classes : HasPositive(c) => gt_AP[c] = APScale(n)
            /\ \A c \in Classes : HasPositive(c) =>
                  compute_ap(flipped, flipped, tw)[c] = APScale(n)
            /\ (\A c \in Classes : HasPositive(c)) =>
                  mean(gt_AP) = <<num_classes * APScale(n), num_classes>>

C10_Witness ==
    /\ pc = "ap_return"
    /\ Len(test_set) = 3
    /\ \A c \in Classes :
          /\ gt_AP[c] = APScale(3)
          /\ \E i \in 1..3 : test_set[i].weight[c] = 0 /\ test_set[i].label[c] = 1
          /\ \E i \in 1..3 : test_set[i].weight[c] # 0 /\ test_set[i].label[c] = 0
          /\ \E i \in 1..3 : test_set[i].weight[c] # 0 /\ test_set[i].label[c] = 1

====
